---- MODULE Spec2Model ----
(***************************************************************************)
(* Model of dnsresolver.py: the recursive resolver `resolve(domain, qtype)`. *)
(* The Python call stack is the sequence `stack`; each element is one       *)
(* activation of resolve with its local variables and its position in the  *)
(* code.  The network (dns.query.udp) is the environment: each query is     *)
(* answered by any response of a bounded set, or fails by a timeout or by   *)
(* another exception.                                                       *)
(***************************************************************************)
EXTENDS Integers, Sequences, FiniteSets, TLC

\* ---------------------------------------------------------------- bounds
NumRoots   == 2   \* entries of ROOT_SERVERS kept (13 in the source)
MaxDepth   == 2   \* activations of resolve on the call stack
MaxQueries == 3   \* queries sent by all activations together
MaxAnswered == 4  \* the same, in the runs where every query is answered

\* ------------------------------------------------------------ vocabulary
Names    == {"x", "y"}              \* domain names
Addr     == {1, 2}                  \* addresses that responses carry
RdTypes  == {"A", "CNAME", "NS"}    \* dns.rdatatype constants the code reads
QTypes   == {"A", "CNAME"}         \* record types a caller asks for
NoAddr   == 0

Range(s) == {s[i] : i \in 1..Len(s)}

\* An RRset: its type, the addresses of its A rdata, the targets of its
\* CNAME / NS rdata.
RR(t, addrs, targets) == [rdtype |-> t, addrs |-> addrs, targets |-> targets]
NoRR == RR("-", <<>>, <<>>)

A_RRs     == {RR("A", <<a>>, <<>>) : a \in Addr}
CNAME_RRs == {RR("CNAME", <<>>, <<n>>) : n \in Names}
NS_RRs    == {RR("NS", <<>>, <<"x">>), RR("NS", <<>>, <<"x", "y">>)}
OtherRR   == RR("TXT", <<>>, <<>>)   \* an RRset of a type the code does not read

SeqsUpTo2(S) == {<<>>} \cup {<<a>> : a \in S} \cup {<<a, b>> : a \in S, b \in S}

\* The three sections of a response as the environment can fill them.
AnswerSections     == SeqsUpTo2(A_RRs \cup CNAME_RRs \cup {OtherRR})
AdditionalSections == SeqsUpTo2({RR("A", <<1>>, <<>>), OtherRR})
                      \cup {<<RR("A", <<1>>, <<>>), RR("A", <<2>>, <<>>)>>}
AuthoritySections  == {<<>>, <<OtherRR>>} \cup {<<r>> : r \in NS_RRs}
                      \cup {<<OtherRR, r>> : r \in NS_RRs}

\* ------------------------------------------------------ pure computations
\* The literal of lines 19-33, cut to NumRoots entries.
RootTable == [i \in 1..NumRoots |-> i]

\* Lines 59-67: the first RRset of the answer section that has the requested
\* type or is a CNAME decides; RRsets of other types are skipped.
RECURSIVE AnswerScan(_, _)
AnswerScan(answer, qtype) ==
    IF answer = <<>> THEN [kind |-> "none", rr |-> NoRR]
    ELSE LET ans == Head(answer) IN
         IF ans.rdtype = qtype THEN [kind |-> "return", rr |-> ans]
         ELSE IF ans.rdtype = "CNAME" THEN [kind |-> "cname", rr |-> ans]
         ELSE AnswerScan(Tail(answer), qtype)

\* A response is any combination of the three sections.  The code reads them
\* in order and stops at the first that decides, so the actions draw what the
\* code reads and ask only that the rest of the response exists.
\* Decided: what the answer sections in which lines 59-67 return (kind
\* "return") or chase (kind "cname") yield: the deciding RRset, and whether
\* the section holds a record of the requested type at all.
Decided(qtype, kind) ==
    {[rr |-> AnswerScan(answer, qtype).rr,
      matched |-> \E i \in 1..Len(answer) : answer[i].rdtype = qtype] :
        answer \in {a \in AnswerSections : AnswerScan(a, qtype).kind = kind}}

\* The answer sections that lines 59-67 pass over without deciding.
Undecided(qtype) == {a \in AnswerSections : AnswerScan(a, qtype).kind = "none"}

\* Lines 78-82: the addresses of every A RRset of the additional section.
RECURSIVE GlueAddrs(_)
GlueAddrs(additional) ==
    IF additional = <<>> THEN <<>>
    ELSE LET add == Head(additional) IN
         (IF add.rdtype = "A" THEN add.addrs ELSE <<>>) \o GlueAddrs(Tail(additional))

\* Lines 96-100: the targets of every NS RRset of the authority section.
RECURSIVE NsNames(_)
NsNames(authority) ==
    IF authority = <<>> THEN <<>>
    ELSE LET auth == Head(authority) IN
         (IF auth.rdtype = "NS" THEN auth.targets ELSE <<>>) \o NsNames(Tail(authority))

\* (variant for C1: a remove that deletes nothing)
ListRemoveNothing(list, x) == list

\* list.remove(x), lines 118 and 121: deletes the first occurrence of x.
RECURSIVE ListRemove(_, _)
ListRemove(list, x) ==
    IF list = <<>> THEN <<>>
    ELSE IF Head(list) = x THEN Tail(list)
    ELSE <<Head(list)>> \o ListRemove(Tail(list), x)

\* (variant for C6: the new addresses are added to the pool)
ReplaceExtends(nameservers, new_ns) == nameservers \o new_ns

\* Lines 84 and 110: nameservers = new_ns.
Replace(nameservers, new_ns) == new_ns


VARIABLES
    ROOT_SERVERS,  \* the module-level list of lines 19-33
    stack,         \* the activations of resolve, outermost first
    queries,       \* queries sent so far, by all activations
    calls,         \* invocations of resolve so far
    nsCalls,       \* those made at line 105, or nested in one made there
    failed         \* some query timed out or raised
vars == <<ROOT_SERVERS, stack, queries, calls, nsCalls, failed>>

\* The referrals followed so far, in order, by an activation none of whose
\* iterations did anything else, and the digest of one that did.
DirectPath == <<>>
Detour     == <<"detour">>
ViaGlue(path) == IF path = Detour THEN path ELSE Append(path, "glue")
ViaNs(path)   == IF path = Detour THEN path ELSE Append(path, "ns")

\* (variant for C10: a nested call starts from the pool of its caller)
CallerPool == IF stack = <<>> THEN ROOT_SERVERS ELSE stack[Len(stack)].nameservers

\* Line 39: nameservers = ROOT_SERVERS[:] (a copy of the table).
InitialPool == ROOT_SERVERS

\* Lines 35-40: a fresh activation of resolve.  Besides the locals of the
\* code (domain, qtype, nameservers, visited, ns, new_ns, ns_names and the
\* position k in ns_names) and the place in the code (pc, with the pending
\* exception exc and the value returned, result), an activation records
\* what it has seen, which the code never reads:
\*   glue       it is, or is nested in, a hostname resolution of line 105;
\*   last       what the latest loop iteration ended with (reset by the next
\*              selection);
\*   additional the additional section that last replaced the pool, and
\*   sawNS      whether that response also had NS records in its authority;
\*   matched    whether the answer that started a CNAME chase also held a
\*              record of the requested type;
\*   onlyFail   every query of the activation so far timed out or raised;
\*   sent       the addresses the queries of line 51 were sent to, in order;
\*   path       the referrals the activation followed, in order, each through
\*              glue or through resolved hostnames, while every iteration of
\*              its loop followed one; the same digest once one did not.
\* new_ns and ns_names are emptied where the code leaves them dead.
NewFrame(domain, qtype, glue) ==
    [domain |-> domain, qtype |-> qtype,
     nameservers |-> InitialPool, visited |-> <<>>,
     pc |-> "select", ns |-> NoAddr,
     new_ns |-> <<>>, ns_names |-> <<>>, k |-> 0,
     result |-> NoRR, exc |-> "none",
     glue |-> glue, last |-> "start", additional |-> <<>>,
     matched |-> FALSE, sawNS |-> FALSE, onlyFail |-> TRUE,
     sent |-> <<>>, path |-> DirectPath]

\* Line 51: dns.query.udp(query, ns, timeout=3): the activation f with the
\* query to ns on record.
Sent(f) == [f EXCEPT !.sent = Append(f.sent, f.ns)]

Depth == Len(stack)
Top   == stack[Depth]
SetTop(f) == [stack EXCEPT ![Depth] = f]
Push(f, g) == Append(SetTop(f), g)
\* Pop the top activation and continue the caller as f.
PopTo(f) == [SubSeq(stack, 1, Depth - 1) EXCEPT ![Depth - 1] = f]
Caller == stack[Depth - 1]
At(p) == Depth >= 1 /\ Top.pc = p

Init ==
    /\ ROOT_SERVERS = RootTable
    /\ stack = <<>>
    /\ queries = 0
    /\ calls = 0
    /\ nsCalls = 0
    /\ failed = FALSE

\* Lines 125-127 (and any other caller): resolve(domain, qtype).
Resolve ==
    /\ stack = <<>>
    /\ calls = 0
    /\ \E domain \in Names, qtype \in QTypes :
          stack' = <<NewFrame(domain, qtype, FALSE)>>
    /\ calls' = 1
    /\ UNCHANGED <<ROOT_SERVERS, queries, nsCalls, failed>>

\* Lines 43-44: the pool is empty.
Exhausted ==
    /\ At("select")
    /\ Top.nameservers = <<>>
    /\ stack' = SetTop([Top EXCEPT !.pc = "raised"])
    /\ UNCHANGED <<ROOT_SERVERS, queries, calls, nsCalls, failed>>

\* (variant for C11: the candidate is drawn from the root table)
PickRoot(nameservers) == Range(ROOT_SERVERS)

\* Line 46: what random.choice(nameservers) can return.
Pick(nameservers) == Range(nameservers)

\* (variant for C14: the address is put at the front of visited)
SelectPrepends(budget) ==
    /\ At("select")
    /\ Top.nameservers # <<>>
    /\ queries < budget
    /\ \E ns \in Pick(Top.nameservers) :
          stack' = SetTop([Top EXCEPT !.ns = ns,
                                      !.visited = <<ns>> \o Top.visited,
                                      !.pc = "query", !.last = "-",
                                      !.additional = <<>>, !.sawNS = FALSE])
    /\ queries' = queries + 1
    /\ UNCHANGED <<ROOT_SERVERS, calls, nsCalls, failed>>

\* Lines 46-47: ns = random.choice(nameservers); visited.append(ns), while
\* fewer than budget queries were sent.
SelectWithin(budget) ==
    /\ At("select")
    /\ Top.nameservers # <<>>
    /\ queries < budget
    /\ \E ns \in Pick(Top.nameservers) :
          stack' = SetTop([Top EXCEPT !.ns = ns,
                                      !.visited = Append(Top.visited, ns),
                                      !.pc = "query", !.last = "-",
                                      !.additional = <<>>, !.sawNS = FALSE])
    /\ queries' = queries + 1
    /\ UNCHANGED <<ROOT_SERVERS, calls, nsCalls, failed>>

SelectServer == SelectWithin(MaxQueries)

\* The same step in the runs along delegations, where every query is answered.
SelectAnswered == SelectWithin(MaxAnswered)

\* Line 51: dns.query.udp raises dns.exception.Timeout.
QueryTimeout ==
    /\ At("query")
    /\ stack' = SetTop([Sent(Top) EXCEPT !.pc = "handler", !.exc = "Timeout"])
    /\ failed' = TRUE
    /\ UNCHANGED <<ROOT_SERVERS, queries, calls, nsCalls>>

\* Lines 50-51: any other exception of the codec or the transport.
QueryError ==
    /\ At("query")
    /\ stack' = SetTop([Sent(Top) EXCEPT !.pc = "handler", !.exc = "Error"])
    /\ failed' = TRUE
    /\ UNCHANGED <<ROOT_SERVERS, queries, calls, nsCalls>>

\* Lines 59-63: the answer section holds the requested type first.
QueryAnswer ==
    /\ At("query")
    /\ \E o \in Decided(Top.qtype, "return") :
          stack' = SetTop([Sent(Top) EXCEPT !.pc = "returned", !.result = o.rr,
                                      !.last = "answer", !.additional = <<>>,
                                      !.onlyFail = FALSE])
    /\ UNCHANGED <<ROOT_SERVERS, queries, calls, nsCalls, failed>>

\* Lines 64-67: a CNAME comes first: return resolve(cname, qtype).
QueryCname ==
    /\ At("query")
    /\ Depth < MaxDepth
    /\ \E o \in Decided(Top.qtype, "cname") :
          stack' = Push([Sent(Top) EXCEPT !.pc = "chase", !.last = "cname",
                                          !.additional = <<>>, !.onlyFail = FALSE,
                                          !.matched = o.matched, !.path = Detour],
                        NewFrame(Head(o.rr.targets), Top.qtype, Top.glue))
    /\ calls' = calls + 1
    /\ nsCalls' = IF Top.glue THEN nsCalls + 1 ELSE nsCalls
    /\ UNCHANGED <<ROOT_SERVERS, queries, failed>>

\* (variant for C16: the pool is replaced without the test of line 83)
QueryGlueUnguarded ==
    /\ At("query")
    /\ Undecided(Top.qtype) # {}
    /\ \E additional \in AdditionalSections,
          sawNS \in {NsNames(authority) # <<>> : authority \in AuthoritySections} :
          /\ stack' = SetTop([Sent(Top) EXCEPT
                 !.new_ns = <<>>,
                 !.nameservers = Replace(Top.nameservers, GlueAddrs(additional)),
                 !.pc = "select", !.last = "glue",
                 !.additional = additional,
                 !.sawNS = sawNS,
                 !.onlyFail = FALSE, !.path = ViaGlue(Top.path)])
    /\ UNCHANGED <<ROOT_SERVERS, queries, calls, nsCalls, failed>>

\* Lines 78-85: glue in the additional section replaces the pool.
QueryGlue ==
    /\ At("query")
    /\ Undecided(Top.qtype) # {}
    /\ \E additional \in AdditionalSections,
          sawNS \in {NsNames(authority) # <<>> : authority \in AuthoritySections} :
          /\ GlueAddrs(additional) # <<>>
          /\ stack' = SetTop([Sent(Top) EXCEPT
                 !.new_ns = <<>>,
                 !.nameservers = Replace(Top.nameservers, GlueAddrs(additional)),
                 !.pc = "select", !.last = "glue",
                 !.additional = additional,
                 !.sawNS = sawNS,
                 !.onlyFail = FALSE, !.path = ViaGlue(Top.path)])
    /\ UNCHANGED <<ROOT_SERVERS, queries, calls, nsCalls, failed>>

\* (variant for C17: the addresses of the hostnames are collected in
\* nameservers itself, emptied at line 103)
QueryAuthorityInPlace ==
    /\ At("query")
    /\ Undecided(Top.qtype) # {}
    /\ \E additional \in AdditionalSections,
          names \in {NsNames(authority) : authority \in AuthoritySections} :
          /\ GlueAddrs(additional) = <<>>
          /\ names # <<>>
          /\ stack' = SetTop([Sent(Top) EXCEPT
                 !.ns_names = names, !.new_ns = <<>>, !.k = 1,
                 !.nameservers = <<>>,
                 !.pc = "nsloop", !.last = "authority",
                 !.additional = additional,
                 !.onlyFail = FALSE, !.path = ViaNs(Top.path)])
    /\ UNCHANGED <<ROOT_SERVERS, queries, calls, nsCalls, failed>>

\* (variant for C15: the authority section is read before the additional
\* section)
QueryAuthorityFirst ==
    /\ At("query")
    /\ Undecided(Top.qtype) # {}
    /\ \E additional \in AdditionalSections,
          names \in {NsNames(authority) : authority \in AuthoritySections} :
          /\ names # <<>>
          /\ stack' = SetTop([Sent(Top) EXCEPT
                 !.ns_names = names, !.new_ns = <<>>, !.k = 1,
                 !.pc = "nsloop", !.last = "authority",
                 !.additional = additional,
                 !.onlyFail = FALSE, !.path = ViaNs(Top.path)])
    /\ UNCHANGED <<ROOT_SERVERS, queries, calls, nsCalls, failed>>

\* Lines 96-103: no glue; the NS hostnames of the authority section are
\* collected and the loop of line 104 starts.
QueryAuthority ==
    /\ At("query")
    /\ Undecided(Top.qtype) # {}
    /\ \E additional \in AdditionalSections,
          names \in {NsNames(authority) : authority \in AuthoritySections} :
          /\ GlueAddrs(additional) = <<>>
          /\ names # <<>>
          /\ stack' = SetTop([Sent(Top) EXCEPT
                 !.ns_names = names, !.new_ns = <<>>, !.k = 1,
                 !.pc = "nsloop", !.last = "authority",
                 !.additional = additional,
                 !.onlyFail = FALSE, !.path = ViaNs(Top.path)])
    /\ UNCHANGED <<ROOT_SERVERS, queries, calls, nsCalls, failed>>

\* Lines 78-111 with nothing usable in the response: new_ns and ns_names stay
\* empty, no branch continues, the try block ends and the while loop
\* iterates.
QueryEmpty ==
    /\ At("query")
    /\ Undecided(Top.qtype) # {}
    /\ \E additional \in AdditionalSections : GlueAddrs(additional) = <<>>
    /\ \E authority \in AuthoritySections : NsNames(authority) = <<>>
    /\ stack' = SetTop([Sent(Top) EXCEPT
                              !.new_ns = <<>>, !.ns_names = <<>>, !.k = 0,
                              !.pc = "select", !.last = "empty",
                              !.additional = <<>>, !.onlyFail = FALSE,
                              !.path = Detour])
    /\ UNCHANGED <<ROOT_SERVERS, queries, calls, nsCalls, failed>>

\* (variant for C18: the hostname is resolved for the type of the caller)
NsResolveSameType ==
    /\ At("nsloop")
    /\ Top.k <= Len(Top.ns_names)
    /\ Depth < MaxDepth
    /\ stack' = Push([Top EXCEPT !.pc = "nswait", !.additional = <<>>],
                     NewFrame(Top.ns_names[Top.k], Top.qtype, TRUE))
    /\ calls' = calls + 1
    /\ nsCalls' = nsCalls + 1
    /\ UNCHANGED <<ROOT_SERVERS, queries, failed>>

\* Lines 104-105: ns_ans = resolve(ns_name, dns.rdatatype.A).
NsResolve ==
    /\ At("nsloop")
    /\ Top.k <= Len(Top.ns_names)
    /\ Depth < MaxDepth
    /\ stack' = Push([Top EXCEPT !.pc = "nswait", !.additional = <<>>],
                     NewFrame(Top.ns_names[Top.k], "A", TRUE))
    /\ calls' = calls + 1
    /\ nsCalls' = nsCalls + 1
    /\ UNCHANGED <<ROOT_SERVERS, queries, failed>>

\* Lines 109-111: the loop of line 104 is over.
NsDone ==
    /\ At("nsloop")
    /\ Top.k > Len(Top.ns_names)
    /\ stack' = SetTop(
          IF Top.new_ns # <<>>
          THEN [Top EXCEPT !.nameservers = Replace(Top.nameservers, Top.new_ns),
                           !.new_ns = <<>>, !.ns_names = <<>>, !.k = 0,
                           !.pc = "select", !.last = "nsreplace"]
          ELSE [Top EXCEPT !.ns_names = <<>>, !.k = 0,
                           !.pc = "select", !.last = "empty",
                           !.path = Detour])
    /\ UNCHANGED <<ROOT_SERVERS, queries, calls, nsCalls, failed>>

\* (variant for C8: the chase is one more iteration of the caller's loop)
ReturnChaseContinues ==
    /\ Depth > 1
    /\ Top.pc = "returned"
    /\ Caller.pc = "chase"
    /\ stack' = PopTo([Caller EXCEPT !.pc = "select"])
    /\ UNCHANGED <<ROOT_SERVERS, queries, calls, nsCalls, failed>>

\* Line 67: the nested resolve returned; its value is returned as is.
ReturnChase ==
    /\ Depth > 1
    /\ Top.pc = "returned"
    /\ Caller.pc = "chase"
    /\ stack' = PopTo([Caller EXCEPT !.pc = "returned", !.result = Top.result])
    /\ UNCHANGED <<ROOT_SERVERS, queries, calls, nsCalls, failed>>

\* (variant for C13: visited is one list that all activations append to)
ReturnNsSharedVisited ==
    /\ Depth > 1
    /\ Top.pc = "returned"
    /\ Caller.pc = "nswait"
    /\ stack' = PopTo(
          IF Top.result.rdtype = "A"
          THEN [Caller EXCEPT !.new_ns = Caller.new_ns \o Top.result.addrs,
                              !.visited = Caller.visited \o Top.visited,
                              !.k = Caller.k + 1, !.pc = "nsloop"]
          ELSE [Caller EXCEPT !.pc = "handler", !.exc = "AttributeError"])
    /\ UNCHANGED <<ROOT_SERVERS, queries, calls, nsCalls, failed>>

\* Lines 105-108: the nested resolve returned ns_ans; its addresses are
\* appended to new_ns (an rdata without .address raises AttributeError).
ReturnNs ==
    /\ Depth > 1
    /\ Top.pc = "returned"
    /\ Caller.pc = "nswait"
    /\ stack' = PopTo(
          IF Top.result.addrs = <<>> /\ Top.result.targets = <<>>
          THEN [Caller EXCEPT !.k = Caller.k + 1, !.pc = "nsloop"]
          ELSE IF Top.result.rdtype = "A"
          THEN [Caller EXCEPT !.new_ns = Caller.new_ns \o Top.result.addrs,
                              !.k = Caller.k + 1, !.pc = "nsloop"]
          ELSE [Caller EXCEPT !.pc = "handler", !.exc = "AttributeError"])
    /\ UNCHANGED <<ROOT_SERVERS, queries, calls, nsCalls, failed>>

\* Line 67 raising: the exception of the nested resolve arrives inside the
\* try block of the caller.
PropagateChase ==
    /\ Depth > 1
    /\ Top.pc = "raised"
    /\ Caller.pc = "chase"
    /\ stack' = PopTo([Caller EXCEPT !.pc = "handler", !.exc = "ChaseFailed"])
    /\ UNCHANGED <<ROOT_SERVERS, queries, calls, nsCalls, failed>>

\* (variant for C9: the failure of a hostname is swallowed and the loop over
\* ns_names goes on)
PropagateNsSwallowed ==
    /\ Depth > 1
    /\ Top.pc = "raised"
    /\ Caller.pc = "nswait"
    /\ stack' = PopTo([Caller EXCEPT !.k = Caller.k + 1, !.pc = "nsloop"])
    /\ UNCHANGED <<ROOT_SERVERS, queries, calls, nsCalls, failed>>

\* Line 105 raising: likewise, inside the loop over ns_names.
PropagateNs ==
    /\ Depth > 1
    /\ Top.pc = "raised"
    /\ Caller.pc = "nswait"
    /\ stack' = PopTo([Caller EXCEPT !.pc = "handler", !.exc = "GlueFailed"])
    /\ UNCHANGED <<ROOT_SERVERS, queries, calls, nsCalls, failed>>

\* The body shared by both except clauses: nameservers.remove(ns), which
\* raises ValueError out of resolve when ns is not in the list.
Handle(f) ==
    IF f.ns \in Range(f.nameservers)
    THEN [f EXCEPT !.nameservers = ListRemove(f.nameservers, f.ns),
                   !.pc = "select", !.exc = "none",
                   !.last = IF f.exc \in {"Timeout", "Error"} THEN "QueryFailed" ELSE f.exc,
                   !.additional = <<>>, !.path = Detour,
                   !.new_ns = <<>>, !.ns_names = <<>>, !.k = 0]
    ELSE [f EXCEPT !.pc = "raised", !.last = "ValueError"]

\* Lines 116-118: except dns.exception.Timeout.
HandleTimeout ==
    /\ At("handler")
    /\ Top.exc = "Timeout"
    /\ stack' = SetTop(Handle(Top))
    /\ UNCHANGED <<ROOT_SERVERS, queries, calls, nsCalls, failed>>

\* Lines 119-121: except Exception.
HandleException ==
    /\ At("handler")
    /\ Top.exc # "Timeout"
    /\ stack' = SetTop(Handle(Top))
    /\ UNCHANGED <<ROOT_SERVERS, queries, calls, nsCalls, failed>>

Next ==
    \/ Resolve
    \/ Exhausted
    \/ SelectServer
    \/ QueryTimeout
    \/ QueryError
    \/ QueryAnswer
    \/ QueryCname
    \/ QueryGlue
    \/ QueryAuthority
    \/ QueryEmpty
    \/ NsResolve
    \/ NsDone
    \/ ReturnChase
    \/ ReturnNs
    \/ PropagateChase
    \/ PropagateNs
    \/ HandleTimeout
    \/ HandleException

Spec == Init /\ [][Next]_vars

\* The runs along delegations: every query is answered, by the records
\* asked for or by a referral (glue, or NS hostnames that resolve the same
\* way).  No query fails and no handler runs.
DelegationNext ==
    \/ Resolve
    \/ SelectAnswered
    \/ QueryAnswer
    \/ QueryGlue
    \/ QueryAuthority
    \/ NsResolve
    \/ NsDone
    \/ ReturnNs

DelegationSpec == Init /\ [][DelegationNext]_vars

\* The interpreter runs the program on: a step that can be taken is taken.
FairSpec == Spec /\ WF_vars(Next)

\* ------------------------------------------------------------ properties
Frames == 1..Depth

\* Occurrences of x in a list.
RECURSIVE Count(_, _)
Count(list, x) ==
    IF list = <<>> THEN 0
    ELSE (IF Head(list) = x THEN 1 ELSE 0) + Count(Tail(list), x)

\* The addresses carried by the A RRsets of a section.
AddressSet(section) ==
    UNION {Range(section[i].addrs) : i \in {j \in 1..Len(section) : section[j].rdtype = "A"}}

\* C1: a call whose every query times out or raises ends by raising the
\* exhaustion failure, and its pool is empty when it does.  Termination is
\* stated by its variant: while every query of a call has failed, the pool
\* has lost one entry per query sent, so the call sends at most NumRoots
\* queries, it raises only with all of them sent and the pool empty, and
\* until then it always has a step to take (stated for the outermost call:
\* the query budget of the model is shared by all activations).
C1_AllFailExhausts ==
    \A d \in Frames :
        LET f == stack[d] IN
        /\ f.pc = "raised" => f.nameservers = <<>>
        /\ f.onlyFail =>
              /\ f.pc \in {"select", "query", "handler", "raised"}
              /\ f.pc \in {"select", "raised"}
                    => Len(f.nameservers) + Len(f.visited) = NumRoots
              /\ f.pc \in {"query", "handler"}
                    => /\ Len(f.nameservers) + Len(f.visited) = NumRoots + 1
                       /\ f.ns \in Range(f.nameservers)
              /\ f.pc = "raised" => Len(f.visited) = NumRoots
              /\ (d = 1 /\ f.pc # "raised") => ENABLED Next

C1_Witness ==
    /\ Depth = 1
    /\ stack[1].pc = "raised"
    /\ stack[1].onlyFail
    /\ Len(stack[1].visited) = NumRoots

\* C2: after a response with nothing usable (no record of the requested
\* type, no CNAME, no glue, no NS) the candidate just queried is out of the
\* pool at the next selection.
C2_EmptyResponseRemoves ==
    \A d \in Frames :
        (stack[d].pc = "select" /\ stack[d].last = "empty")
            => stack[d].ns \notin Range(stack[d].nameservers)

\* C3: when the nested resolution of one NS hostname fails while another
\* hostname has yielded addresses or is still to be tried, the loop over the
\* hostnames goes on with what it has gathered.
C3_FailedHostnameSkipped ==
    [][(/\ Depth > 1
        /\ Top.pc = "raised"
        /\ Caller.pc = "nswait"
        /\ (Caller.new_ns # <<>> \/ Caller.k < Len(Caller.ns_names)))
       => (/\ Len(stack') = Depth - 1
           /\ stack'[Depth - 1].pc = "nsloop"
           /\ stack'[Depth - 1].k = Caller.k + 1
           /\ stack'[Depth - 1].new_ns = Caller.new_ns)]_vars

\* C4: a CNAME chase starts only from an answer section that holds no record
\* of the requested type, wherever the CNAME stands in it.
C4_MatchBeatsCname ==
    \A d \in Frames : stack[d].pc = "chase" => ~stack[d].matched

\* C5: a call that has started a CNAME chase only waits for it and then ends
\* with its outcome; it never comes back to its own handler or pool.
C5_ChaseOutcomeIsFinal ==
    \A d \in Frames :
        stack[d].last = "cname" => stack[d].pc \in {"chase", "returned", "raised"}
\* C6: after a referral with glue the pool is exactly the addresses of the
\* additional section (no earlier candidate is left), and the next server
\* picked is one of them.
C6_GlueReplacesPool ==
    /\ [](\A d \in Frames :
            (stack[d].pc = "select" /\ stack[d].last = "glue")
                => Range(stack[d].nameservers) = AddressSet(stack[d].additional))
    /\ [][(At("select") /\ Top.last = "glue" /\ stack'[Depth].pc = "query")
            => stack'[Depth].ns \in AddressSet(Top.additional)]_vars

C6_Witness ==
    /\ At("select")
    /\ Top.last = "glue"
    /\ Range(RootTable) \ Range(Top.nameservers) # {}

\* C7: after a query to a candidate failed (timeout or another error) the
\* candidate is not in the pool at the next selection.
C7_FailedCandidateGone ==
    \A d \in Frames :
        (stack[d].pc = "select" /\ stack[d].last = "QueryFailed")
            => stack[d].ns \notin Range(stack[d].nameservers)

\* The moment the last call of a CNAME chain returns the record it found in
\* an answer section: every caller below it waits in a chase and no query
\* has failed.  The chain has Depth - 1 links.
ChainAnswered ==
    /\ At("returned")
    /\ Top.last = "answer"
    /\ ~failed
    /\ \A d \in 1..(Depth - 1) : stack[d].pc = "chase"

\* C8 as stated: a chain of k links answered throughout ends with exactly
\* k + 1 invocations of resolve made.
C8_ExactlyChainCalls ==
    ChainAnswered => calls = Depth

\* C8 as amended: the invocations that are not hostname resolutions of line
\* 105 (nor nested in one) number k + 1, the record returned has the
\* requested type, and each caller of the chain returns it unchanged.
C8_ChainCalls ==
    /\ [](ChainAnswered => (calls - nsCalls = Depth /\ Top.result.rdtype = Top.qtype))
    /\ [][(Depth > 1 /\ Top.pc = "returned" /\ Caller.pc = "chase")
            => (/\ Len(stack') = Depth - 1
                /\ stack'[Depth - 1].pc = "returned"
                /\ stack'[Depth - 1].result = Top.result)]_vars

\* A chain of one link: the second invocation returns the record.
C8_Witness ==
    /\ ChainAnswered
    /\ Depth = 2
    /\ calls = 2
    /\ stack[1].domain # stack[2].domain

\* C9: when the nested resolution of an NS hostname fails, the caller takes
\* it as the failure of the candidate it queried: one occurrence of that
\* candidate leaves the pool, the others stay, and the caller selects again.
C9_GlueFailureDropsCandidate ==
    [][/\ (Depth > 1 /\ Top.pc = "raised" /\ Caller.pc = "nswait")
          => (/\ Len(stack') = Depth - 1
              /\ stack'[Depth - 1].pc = "handler"
              /\ stack'[Depth - 1].ns = Caller.ns
              /\ stack'[Depth - 1].nameservers = Caller.nameservers)
       /\ (At("handler") /\ Top.exc = "GlueFailed")
          => (/\ Len(stack') = Depth
              /\ stack'[Depth].pc = "select"
              /\ Len(stack'[Depth].nameservers) = Len(Top.nameservers) - 1
              /\ \A a \in Range(Top.nameservers) :
                    Count(stack'[Depth].nameservers, a)
                        = Count(Top.nameservers, a) - (IF a = Top.ns THEN 1 ELSE 0))]_vars

\* No hostname of the referral yielded an address, the candidate is gone and
\* another one is left to try.
C9_Witness ==
    /\ At("select")
    /\ Top.last = "GlueFailed"
    /\ Top.new_ns = <<>>
    /\ Top.k = Len(Top.ns_names)
    /\ Top.nameservers # <<>>
    /\ Top.ns \notin Range(Top.nameservers)

\* C10: every invocation starts from the whole root table with an empty
\* path; a step taken while a nested invocation runs leaves the pool and the
\* path of every enclosing call as they are; the root table never changes.
C10_CallsAreIsolated ==
    /\ [](ROOT_SERVERS = RootTable)
    /\ [][/\ Len(stack') > Depth
             => (/\ stack'[Len(stack')].nameservers = RootTable
                 /\ stack'[Len(stack')].visited = <<>>)
          /\ \A d \in 1..(Depth - 1) :
                /\ stack'[d].nameservers = stack[d].nameservers
                /\ stack'[d].visited = stack[d].visited]_vars

\* A nested call has shrunk its own pool and extended its own path while
\* the caller keeps a pool of another content.
C10_Witness ==
    /\ Depth = 2
    /\ stack[2].visited # <<>>
    /\ stack[2].nameservers # RootTable
    /\ stack[1].nameservers # stack[2].nameservers
    /\ stack[1].visited # stack[2].visited

\* C11: a query is sent only to a member of the pool that the activation
\* holds at that moment, which is then not empty; an activation that finds
\* its pool empty at line 43 raises (line 44) in that very step, without
\* selecting a server or sending a query.
C11_QueryOnlyToPoolMember ==
    /\ [](\A d \in Frames :
            stack[d].pc = "query" =>
               /\ stack[d].nameservers # <<>>
               /\ stack[d].ns \in Range(stack[d].nameservers))
    /\ [][/\ \A d \in Frames :
               (d <= Len(stack') /\ stack'[d].sent # stack[d].sent) =>
                  /\ stack'[d].sent = Append(stack[d].sent, stack[d].ns)
                  /\ stack[d].ns \in Range(stack[d].nameservers)
          /\ (At("select") /\ Top.nameservers = <<>>) =>
                  /\ stack' = SetTop([Top EXCEPT !.pc = "raised"])
                  /\ queries' = queries]_vars

\* An outer activation has sent a query and the nested one it started has
\* run out of candidates.
C11_Witness ==
    /\ Depth = 2
    /\ Top.pc = "raised"
    /\ Top.nameservers = <<>>
    /\ stack[1].sent # <<>>
    /\ stack[1].sent = stack[1].visited

\* C12: resolution through chained indirections ends after a bounded number
\* of nested invocations: a CNAME cycle or a referral cycle is cut with a
\* failure, so no activation is ever started for a name and type that an
\* activation below it on the stack is still resolving.
C12_NoNameResolvedTwice ==
    \A d, e \in Frames :
       (d < e /\ stack[d].domain = stack[e].domain) =>
          stack[d].qtype # stack[e].qtype

\* C13: with every query answered, a call whose first response was a
\* referral without glue (its NS hostname resolved by a nested call), whose
\* second was a referral with glue and whose third held the record asked
\* for returns that record with a visited list of exactly three addresses:
\* the queries of the nested call are not in it.
C13_ThreeHopsVisited ==
    (/\ Depth >= 1
     /\ stack[1].pc = "returned"
     /\ stack[1].path = <<"ns", "glue">>) =>
        /\ Len(stack[1].visited) = 3
        /\ stack[1].result.rdtype = stack[1].qtype
        /\ stack[1].result.addrs # <<>> \/ stack[1].result.targets # <<>>
        /\ queries > Len(stack[1].visited)
        /\ nsCalls >= 1

\* The scenario has run to its end: four queries were sent, three of them
\* by the outer call.
C13_Witness ==
    /\ Depth = 1
    /\ stack[1].pc = "returned"
    /\ stack[1].qtype = "A"
    /\ stack[1].path = <<"ns", "glue">>
    /\ Len(stack[1].visited) = 3
    /\ queries = 4
    /\ calls = 2

\* The activation f has followed glue at every hop so far.
GlueOnly(f) == f.path # Detour /\ \A i \in 1..Len(f.path) : f.path[i] = "glue"

\* C14: with every query answered, a call that is referred on through glue
\* at every hop returns the record of the requested type once the chain
\* ends: each hop costs it exactly one query and never leaves it without a
\* candidate, and at the return its visited list has at least one entry and
\* is, in order, the list of addresses it sent its queries to.
C14_GlueChainReturns ==
    \A d \in Frames :
       GlueOnly(stack[d]) =>
          /\ stack[d].pc \in {"select", "query", "returned"}
          /\ stack[d].pc = "select" =>
                /\ stack[d].nameservers # <<>>
                /\ Len(stack[d].visited) = Len(stack[d].path)
                /\ stack[d].visited = stack[d].sent
          /\ stack[d].pc = "query" =>
                /\ Len(stack[d].visited) = Len(stack[d].path) + 1
                /\ stack[d].visited = Append(stack[d].sent, stack[d].ns)
          /\ stack[d].pc = "returned" =>
                /\ stack[d].result.rdtype = stack[d].qtype
                /\ stack[d].result # NoRR
                /\ Len(stack[d].visited) >= 1
                /\ Len(stack[d].visited) = Len(stack[d].path) + 1
                /\ stack[d].visited = stack[d].sent

\* A chain of two glue referrals returned an address record; the servers
\* queried differ, so the order of visited is told apart from any other.
C14_Witness ==
    /\ Depth = 1
    /\ stack[1].pc = "returned"
    /\ stack[1].qtype = "A"
    /\ stack[1].path = <<"glue", "glue">>
    /\ stack[1].visited[2] # stack[1].visited[3]

\* C15: glue has priority over the authority section.  A response with an
\* address record in its additional section replaces the pool by those
\* addresses and the activation goes back to the selection, without
\* starting a hostname resolution, also when the authority section of the
\* same response names nameservers; the loop over NS hostnames is entered
\* only on a response whose additional section holds no address record.
C15_GlueBeforeAuthority ==
    \A d \in Frames :
       /\ stack[d].last = "glue" =>
             /\ d = Depth
             /\ stack[d].pc = "select"
             /\ AddressSet(stack[d].additional) # {}
             /\ Range(stack[d].nameservers) = AddressSet(stack[d].additional)
       /\ (stack[d].pc = "nsloop" /\ stack[d].k = 1) =>
             /\ stack[d].last = "authority"
             /\ AddressSet(stack[d].additional) = {}
       /\ stack[d].pc \in {"nsloop", "nswait"} => stack[d].last = "authority"

\* A referral with glue whose authority section also named nameservers was
\* followed through the glue.
C15_Witness ==
    /\ At("select")
    /\ Top.last = "glue"
    /\ Top.sawNS
    /\ calls = 1

\* What an activation records when its handler has removed a candidate.
Removals == {"QueryFailed", "ChaseFailed", "GlueFailed", "AttributeError"}

\* C16: the pool is never replaced by an empty list.  Right after a
\* replacement, from glue or from resolved NS hostnames, the pool is not
\* empty; every change of a pool is such a replacement or the removal of the
\* failed candidate by the handler, and an empty pool is what a removal left.
C16_ReplacedPoolNonEmpty ==
    /\ [](\A d \in Frames :
            /\ stack[d].last \in {"glue", "nsreplace"} => stack[d].nameservers # <<>>
            /\ stack[d].nameservers = <<>> =>
                  /\ stack[d].last \in Removals
                  /\ stack[d].pc \in {"select", "raised"})
    /\ [][\A d \in Frames :
            (d <= Len(stack') /\ stack'[d].nameservers # stack[d].nameservers) =>
               \/ /\ stack'[d].last \in {"glue", "nsreplace"}
                  /\ stack'[d].nameservers # <<>>
               \/ /\ stack[d].pc = "handler"
                  /\ stack'[d].last \in Removals
                  /\ stack'[d].nameservers = ListRemove(stack[d].nameservers, stack[d].ns)]_vars

\* The addresses returned for the NS hostnames have just replaced the pool.
C16_Witness ==
    /\ At("select")
    /\ Top.last = "nsreplace"
    /\ Top.nameservers # <<>>
    /\ Top.nameservers # ROOT_SERVERS

\* C17: whenever a handler removes the selected candidate, the candidate is
\* in the pool: from its selection to the end of the try block the pool of
\* the activation is not assigned, whatever the block does (query, CNAME
\* chase, hostname resolutions), so nameservers.remove(ns) never raises.
C17_RemovalNeverFails ==
    \A d \in Frames :
       /\ stack[d].pc \in {"query", "chase", "nsloop", "nswait", "handler"} =>
             stack[d].ns \in Range(stack[d].nameservers)
       /\ stack[d].last # "ValueError"

\* The failure of a nested resolution reached the handler of its caller,
\* which has removed the candidate it had selected.
C17_Witness ==
    /\ At("select")
    /\ Top.last \in {"ChaseFailed", "GlueFailed"}
    /\ Len(Top.nameservers) = NumRoots - 1
    /\ Top.ns \notin Range(Top.nameservers)
    /\ Top.sent = Top.visited

\* C18: whatever resolve(name, t) returns is a non-empty RRset of type t,
\* directly or as the value of a CNAME chase, which asks for the same t; a
\* hostname resolution of line 105 asks for A whatever its caller was asked
\* for.  So no CNAME RRset is returned unless t is CNAME.
C18_ReturnsRequestedType ==
    \A d \in Frames :
       /\ stack[d].pc = "returned" =>
             /\ stack[d].result # NoRR
             /\ stack[d].result.rdtype = stack[d].qtype
             /\ stack[d].result.addrs # <<>> \/ stack[d].result.targets # <<>>
             /\ stack[d].qtype # "CNAME" => stack[d].result.rdtype # "CNAME"
       /\ stack[d].pc # "returned" => stack[d].result = NoRR
       /\ (d > 1 /\ stack[d - 1].pc = "chase") => stack[d].qtype = stack[d - 1].qtype
       /\ (d > 1 /\ stack[d - 1].pc = "nswait") => stack[d].qtype = "A"
       /\ (d > 1) => stack[d - 1].pc \in {"chase", "nswait"}

\* A call asked for CNAME has started a hostname resolution, which asked for
\* A and has returned an address RRset.
C18_Witness ==
    /\ Depth = 2
    /\ stack[1].qtype = "CNAME"
    /\ stack[1].pc = "nswait"
    /\ stack[2].pc = "returned"
    /\ stack[2].result.rdtype = "A"
    /\ stack[2].result.addrs # <<>>

====
